---- MODULE Spec2Model ----
(***************************************************************************)
(* Message board canister (src/src/index.ts): a Message class, a           *)
(* StableBTreeMap<string, Message> store and six express routes.           *)
(*                                                                         *)
(* Strings are sequences of one-character strings, so that toLowerCase and *)
(* includes are computed.  The JavaScript values undefined and null are    *)
(* the two marker sequences Undefined and Null, which no string equals.    *)
(* A Date is its number of milliseconds; a null Date is NullDate.          *)
(***************************************************************************)
EXTENDS Integers, Sequences, FiniteSets, TLC

VARIABLES
    conv,     \* result convention of StableBTreeMap.get/remove in the build
    store,    \* messagesStorage: id -> Message
    time,     \* last value read from ic.time(), in nanoseconds
    issued,   \* number of ids uuidv4() has generated
    req,      \* the request being served: method, path, query, body;
              \* NoReq between requests
    res,      \* the response to it: the route that answered, status, body
    up        \* the canister is installed and listening; FALSE while it
              \* is being restarted (upgraded)

vars == <<conv, store, time, issued, req, res, up>>

----------------------------------------------------------------------------
(* Bounds *)

MaxIds == 2        \* ids uuidv4() can generate
MaxTicks == 2      \* clock advances observed
TimeStep == 600000 \* nanoseconds per clock advance

----------------------------------------------------------------------------
(* JavaScript values *)

Undefined == <<"undefined">>
Null == <<"null">>
NullDate == -1
NsPerMs == 1000000

\* !v for v a string, undefined or null
Falsy(v) == v = Undefined \/ v = Null \/ v = <<>>

\* a || b
OrElse(a, b) == IF Falsy(a) THEN b ELSE a

LowerChar(c) ==
    CASE c = "A" -> "a"
      [] c = "C" -> "c"
      [] c = "D" -> "d"
      [] c = "T" -> "t"
      [] OTHER -> c

toLowerCase(s) == [i \in 1..Len(s) |-> LowerChar(s[i])]

includes(s, q) ==
    \E i \in 0..(Len(s) - Len(q)) : SubSeq(s, i + 1, i + Len(q)) = q

\* an absent value, as an object-or-undefined
JsUndefined == [kind |-> "undefined", items |-> <<>>]

\* !v for v an object or undefined: every object is truthy
Not(v) == v.kind = "undefined"

\* v.Some: the wrapped Message of {Some: m}; undefined on {None: null} and
\* on a Message, which has no such property
DotSome(v) ==
    IF v.kind = "Some" THEN [kind |-> "Message", items |-> v.items]
    ELSE JsUndefined

----------------------------------------------------------------------------
(* uuid, clock *)

IdName == <<"u1", "u2", "u3", "u4">>
Ids == {IdName[i] : i \in 1..MaxIds}

uuidv4(n) == IdName[n + 1]

getCurrentDate(timestamp) == timestamp \div NsPerMs

----------------------------------------------------------------------------
(* class Message *)

Message(id, title, body, attachmentURL, createdAt, updatedAt) ==
    [id |-> id, title |-> title, body |-> body,
     attachmentURL |-> attachmentURL,
     createdAt |-> createdAt, updatedAt |-> updatedAt]

\* slip: && for ||
CreateThrows_Both(data) == Falsy(data.title) /\ Falsy(data.body)

CreateThrows(data) == Falsy(data.title) \/ Falsy(data.body)

\* slip: the constructor's last argument filled in with the clock as well
Message_create_Stamped(data, id, now) ==
    Message(id, data.title, data.body, OrElse(data.attachmentURL, Null),
            getCurrentDate(now), getCurrentDate(now))

\* slip: createdAt built from the raw nanoseconds
Message_create_RawTime(data, id, now) ==
    Message(id, data.title, data.body, OrElse(data.attachmentURL, Null),
            now, NullDate)

\* slip: a fixed id in place of a generated one
Message_create_FirstId(data, id, now) ==
    Message(IdName[1], data.title, data.body,
            OrElse(data.attachmentURL, Null), getCurrentDate(now), NullDate)

Message_create(data, id, now) ==
    Message(id, data.title, data.body, OrElse(data.attachmentURL, Null),
            getCurrentDate(now), NullDate)

\* slip: if (data.attachmentURL) for if (data.attachmentURL !== undefined)
Message_update_Truthy(this, data, now) ==
    [this EXCEPT
        !.title = IF data.title # Undefined THEN data.title ELSE @,
        !.body = IF data.body # Undefined THEN data.body ELSE @,
        !.attachmentURL =
            IF ~Falsy(data.attachmentURL) THEN data.attachmentURL ELSE @,
        !.updatedAt = getCurrentDate(now)]

\* slip: updatedAt stamped only when the input carries a field to write
Message_update_IfChanged(this, data, now) ==
    [this EXCEPT
        !.title = IF data.title # Undefined THEN data.title ELSE @,
        !.body = IF data.body # Undefined THEN data.body ELSE @,
        !.attachmentURL =
            IF data.attachmentURL # Undefined THEN data.attachmentURL ELSE @,
        !.updatedAt =
            IF \/ data.title # Undefined
               \/ data.body # Undefined
               \/ data.attachmentURL # Undefined
            THEN getCurrentDate(now) ELSE @]

\* slip: createdAt stamped along with updatedAt
Message_update_Restamp(this, data, now) ==
    [this EXCEPT
        !.title = IF data.title # Undefined THEN data.title ELSE @,
        !.body = IF data.body # Undefined THEN data.body ELSE @,
        !.attachmentURL =
            IF data.attachmentURL # Undefined THEN data.attachmentURL ELSE @,
        !.createdAt = getCurrentDate(now),
        !.updatedAt = getCurrentDate(now)]

Message_update(this, data, now) ==
    [this EXCEPT
        !.title = IF data.title # Undefined THEN data.title ELSE @,
        !.body = IF data.body # Undefined THEN data.body ELSE @,
        !.attachmentURL =
            IF data.attachmentURL # Undefined THEN data.attachmentURL ELSE @,
        !.updatedAt = getCurrentDate(now)]

----------------------------------------------------------------------------
(* StableBTreeMap<string, Message> *)

\* slip: a map on the heap, which starts empty whenever the canister starts
StableBTreeMap_Heap(memory) == <<>>

\* StableBTreeMap(0): the map kept in stable memory 0, with the contents
\* that memory holds when the canister starts
StableBTreeMap(memory) == memory

\* what get and remove hand back for key k of s: an Opt ({Some: m} or
\* {None: null}) in one build, the Message or undefined in the other
Wrap(s, k) ==
    IF conv = "Opt"
    THEN IF k \in DOMAIN s
         THEN [kind |-> "Some", items |-> <<s[k]>>]
         ELSE [kind |-> "None", items |-> <<>>]
    ELSE IF k \in DOMAIN s
         THEN [kind |-> "Message", items |-> <<s[k]>>]
         ELSE JsUndefined

StoreGet(s, k) == Wrap(s, k)

StoreRemoved(s, k) == Wrap(s, k)

\* slip: every value written under the first key
StoreInsert_FirstKey(s, k, v) ==
    [x \in DOMAIN s \cup {IdName[1]} |-> IF x = IdName[1] THEN v ELSE s[x]]

StoreInsert(s, k, v) ==
    [x \in DOMAIN s \cup {k} |-> IF x = k THEN v ELSE s[x]]

\* slip: remove empties the map
StoreRemove_Clear(s, k) == <<>>

StoreRemove(s, k) == [x \in DOMAIN s \ {k} |-> s[x]]

RECURSIVE InKeyOrder(_, _)
InKeyOrder(s, i) ==
    IF i > Len(IdName) THEN <<>>
    ELSE (IF IdName[i] \in DOMAIN s THEN <<s[IdName[i]]>> ELSE <<>>)
         \o InKeyOrder(s, i + 1)

\* slip: the scan starts after the first key
StoreValues_SkipFirst(s) == InKeyOrder(s, 2)

StoreValues(s) == InKeyOrder(s, 1)

----------------------------------------------------------------------------
(* Responses *)

NoRes == [route |-> "", status |-> 0, kind |-> "", error |-> <<>>,
          items |-> <<>>]

\* res.json(v)
Json(route, v) ==
    [route |-> route, status |-> 200, kind |-> v.kind, error |-> <<>>,
     items |-> v.items]

sendError(route, message, status) ==
    [route |-> route, status |-> status, kind |-> "error",
     error |-> message, items |-> <<>>]

NotFoundMessage(id) == <<"Message with id=", id, " not found.">>
RequiredMessage == <<"Both 'title' and 'body' are required.">>
QueryMessage == <<"Query parameter is required.">>

----------------------------------------------------------------------------
(* Routes, in the order they are registered *)

Routes == <<
    [method |-> "POST", path |-> <<"messages">>],
    [method |-> "GET", path |-> <<"messages">>],
    [method |-> "GET", path |-> <<"messages", ":id">>],
    [method |-> "PUT", path |-> <<"messages", ":id">>],
    [method |-> "DELETE", path |-> <<"messages", ":id">>],
    [method |-> "GET", path |-> <<"messages", "search">>] >>

RouteName(i) ==
    CASE i = 1 -> "POST /messages"
      [] i = 2 -> "GET /messages"
      [] i = 3 -> "GET /messages/:id"
      [] i = 4 -> "PUT /messages/:id"
      [] i = 5 -> "DELETE /messages/:id"
      [] i = 6 -> "GET /messages/search"

Matches(route, method, path) ==
    /\ route.method = method
    /\ Len(route.path) = Len(path)
    /\ \A i \in 1..Len(path) :
          route.path[i] = ":id" \/ route.path[i] = path[i]

\* express answers with the first registered route that matches
FirstMatch(method, path) ==
    LET hits == {i \in 1..Len(Routes) : Matches(Routes[i], method, path)}
    IN RouteName(CHOOSE i \in hits : \A j \in hits : i <= j)

\* the requests made here, each with the route that answers it
Requests ==
    {<<"POST", <<"messages">>>>, <<"GET", <<"messages">>>>}
    \cup {<<m, <<"messages", seg>>>> :
             m \in {"GET", "PUT", "DELETE"}, seg \in Ids \cup {"search"}}

Router == [r \in Requests |-> FirstMatch(r[1], r[2])]

Dispatch(method, path) == Router[<<method, path>>]

----------------------------------------------------------------------------
(* Route handlers *)

PostMessages(data, now) ==
    LET route == "POST /messages"
        message == Message_create(data, uuidv4(issued), now)
    IN IF CreateThrows(data)
       THEN /\ res' = sendError(route, RequiredMessage, 400)
            /\ UNCHANGED <<store, time, issued>>
       ELSE /\ issued < MaxIds
            /\ issued' = issued + 1
            /\ time' = now
            /\ store' = StoreInsert(store, message.id, message)
            /\ res' = Json(route, [kind |-> "Message", items |-> <<message>>])

GetMessages ==
    /\ res' = Json("GET /messages",
                   [kind |-> "Array", items |-> StoreValues(store)])
    /\ UNCHANGED <<store, time, issued>>

GetMessagesId(id) ==
    LET route == "GET /messages/:id"
        message == StoreGet(store, id)
    IN /\ res' = IF Not(message)
                 THEN sendError(route, NotFoundMessage(id), 404)
                 ELSE Json(route, message)
       /\ UNCHANGED <<store, time, issued>>

PutMessagesId(id, data, now) ==
    LET route == "PUT /messages/:id"
        messageOpt == StoreGet(store, id)
    IN IF Not(messageOpt) \/ Not(DotSome(messageOpt))
       THEN /\ res' = sendError(route, NotFoundMessage(id), 404)
            /\ UNCHANGED <<store, time, issued>>
       ELSE LET message == DotSome(messageOpt).items[1]
                updatedMessage == Message_update(message, data, now)
            IN /\ time' = now
               /\ store' = StoreInsert(store, updatedMessage.id, updatedMessage)
               /\ res' = Json(route, [kind |-> "Message",
                                      items |-> <<updatedMessage>>])
               /\ UNCHANGED issued

DeleteMessagesId(id) ==
    LET route == "DELETE /messages/:id"
        deletedMessage == StoreRemoved(store, id)
    IN /\ store' = StoreRemove(store, id)
       /\ res' = IF Not(deletedMessage)
                 THEN sendError(route, NotFoundMessage(id), 404)
                 ELSE Json(route, deletedMessage)
       /\ UNCHANGED <<time, issued>>

SearchQuery(q) == IF q = Undefined THEN Undefined ELSE toLowerCase(q)

SearchResults(s, query) ==
    SelectSeq(StoreValues(s),
              LAMBDA message :
                  \/ includes(toLowerCase(message.title), query)
                  \/ includes(toLowerCase(message.body), query))

GetMessagesSearch(q) ==
    LET route == "GET /messages/search"
        query == SearchQuery(q)
    IN /\ res' = IF Falsy(query)
                 THEN sendError(route, QueryMessage, 400)
                 ELSE Json(route, [kind |-> "Array",
                                   items |-> SearchResults(store, query)])
       /\ UNCHANGED <<store, time, issued>>

\* the test each of the three by-id handlers makes before it answers 404
GetReportsNotFound(s, id) == Not(StoreGet(s, id))

PutReportsNotFound(s, id) ==
    Not(StoreGet(s, id)) \/ Not(DotSome(StoreGet(s, id)))

DeleteReportsNotFound(s, id) == Not(StoreRemoved(s, id))

----------------------------------------------------------------------------
(* Requests *)

Str_At == <<"A", "t">>
Str_dog == <<"d", "o", "g">>
Str_Cat == <<"C", "a", "t">>
Str_url == <<"u">>

NoExtra == [id |-> Undefined, createdAt |-> Undefined, updatedAt |-> Undefined]
Extra == [id |-> <<"z">>, createdAt |-> <<"9">>, updatedAt |-> <<"0">>]

Data(title, body, attachmentURL, extra) ==
    [title |-> title, body |-> body, attachmentURL |-> attachmentURL,
     id |-> extra.id, createdAt |-> extra.createdAt,
     updatedAt |-> extra.updatedAt]

CreateBodies ==
    {Data(t, b, Undefined, NoExtra) :
        t \in {Undefined, <<>>, Str_At},
        b \in {Undefined, <<>>, Str_dog}}
    \cup {Data(Str_At, Str_dog, a, NoExtra) : a \in {<<>>, Str_url}}

UpdateBodies ==
    {Data(t, b, a, NoExtra) :
        t \in {Undefined, <<>>},
        b \in {Undefined, Str_Cat},
        a \in {Undefined, Null, Str_url}}
    \cup {Data(Undefined, Undefined, Undefined, Extra),
          Data(<<>>, Str_Cat, Null, Extra)}

Queries == {Undefined, <<>>, <<"A", "T">>}

Segments == Ids \cup {"search"}

Clock == {t \in {time, time + TimeStep} : t <= MaxTicks * TimeStep}

NoBody == Data(Undefined, Undefined, Undefined, NoExtra)

Request(method, path, query, body) ==
    [method |-> method, path |-> path, query |-> query, body |-> body]

NoReq == Request("", <<>>, Undefined, NoBody)

Init ==
    /\ conv \in {"Opt", "Plain"}
    /\ store = StableBTreeMap(<<>>)
    /\ time = 0
    /\ issued = 0
    /\ req = NoReq
    /\ res = NoRes
    /\ up = TRUE

\* one request is served at a time: the next one is taken up when the
\* response to the last one has left
Idle == up /\ req = NoReq

Respond ==
    /\ req # NoReq
    /\ req' = NoReq
    /\ res' = NoRes
    /\ UNCHANGED <<conv, store, time, issued, up>>

\* the hosting process is restarted between two requests: what is on the
\* heap is gone, stable memory stays
Restart ==
    /\ Idle
    /\ up' = FALSE
    /\ UNCHANGED <<conv, store, time, issued, req, res>>

\* the Server callback runs again: the store is opened on stable memory 0
\* and the app listens
Listen ==
    /\ ~up
    /\ store' = StableBTreeMap(store)
    /\ up' = TRUE
    /\ UNCHANGED <<conv, time, issued, req, res>>

HttpPost(data, now) ==
    /\ Idle
    /\ req' = Request("POST", <<"messages">>, Undefined, data)
    /\ Dispatch("POST", <<"messages">>) = "POST /messages"
    /\ PostMessages(data, now)
    /\ UNCHANGED <<conv, up>>

HttpGet ==
    /\ Idle
    /\ req' = Request("GET", <<"messages">>, Undefined, NoBody)
    /\ Dispatch("GET", <<"messages">>) = "GET /messages"
    /\ GetMessages
    /\ UNCHANGED <<conv, up>>

HttpGetPath(seg, q) ==
    /\ Idle
    /\ req' = Request("GET", <<"messages", seg>>, q, NoBody)
    /\ IF Dispatch("GET", <<"messages", seg>>) = "GET /messages/:id"
       THEN GetMessagesId(seg)
       ELSE GetMessagesSearch(q)
    /\ UNCHANGED <<conv, up>>

HttpPut(seg, data, now) ==
    /\ Idle
    /\ req' = Request("PUT", <<"messages", seg>>, Undefined, data)
    /\ Dispatch("PUT", <<"messages", seg>>) = "PUT /messages/:id"
    /\ PutMessagesId(seg, data, now)
    /\ UNCHANGED <<conv, up>>

HttpDelete(seg) ==
    /\ Idle
    /\ req' = Request("DELETE", <<"messages", seg>>, Undefined, NoBody)
    /\ Dispatch("DELETE", <<"messages", seg>>) = "DELETE /messages/:id"
    /\ DeleteMessagesId(seg)
    /\ UNCHANGED <<conv, up>>

\* a request that does not read the clock is taken once, not once per reading
Next ==
    \/ \E data \in CreateBodies, now \in Clock :
          (CreateThrows(data) => now = time) /\ HttpPost(data, now)
    \/ HttpGet
    \/ \E seg \in Segments, q \in Queries :
          (seg # "search" => q = Undefined) /\ HttpGetPath(seg, q)
    \/ \E seg \in Ids, data \in UpdateBodies, now \in Clock :
          (seg \notin DOMAIN store => now = time) /\ HttpPut(seg, data, now)
    \/ \E seg \in Ids : HttpDelete(seg)
    \/ Respond
    \/ Restart
    \/ Listen

Spec == Init /\ [][Next]_vars

----------------------------------------------------------------------------
(* The request a state, or a step, is about.  A step that takes up a request
   leaves the request in req', its response in res', and the clock reading
   it made, if any, in time'. *)

Is(r, method, path) == r.method = method /\ r.path = path

IsById(r, method) ==
    r.method = method /\ Len(r.path) = 2 /\ r.path[2] \in Ids

Id(r) == r.path[2]

MissingOrEmpty(v) == v = Undefined \/ v = <<>>

\* date is the clock reading t (nanoseconds) in whole milliseconds
IsClockValue(date, t) ==
    date * NsPerMs <= t /\ t < (date + 1) * NsPerMs

Updated(m) == m.updatedAt # NullDate

----------------------------------------------------------------------------
\* C1: get by id succeeds and returns the record stored at the id when there
\* is one, and reports NotFound (404), never success, when there is none.
C1_GetById ==
    IsById(req, "GET") =>
        IF Id(req) \in DOMAIN store
        THEN /\ res.status = 200
             /\ res.kind = "Message"
             /\ res.items = <<store[Id(req)]>>
        ELSE res.status = 404

\* C2: update by id reports NotFound exactly when no record is stored at the
\* id, leaving the store unchanged; otherwise it succeeds and returns the
\* merged record, which is the record stored at the id afterwards.
C2_UpdateById ==
    [][IsById(req', "PUT") =>
          IF Id(req') \notin DOMAIN store
          THEN res'.status = 404 /\ store' = store
          ELSE /\ res'.status = 200
               /\ res'.kind = "Message"
               /\ Id(req') \in DOMAIN store'
               /\ res'.items = <<store'[Id(req')]>>]_vars

\* the stored records whose title or body contains q, ignoring case
Matching(s, q) ==
    SelectSeq(StoreValues(s),
              LAMBDA m :
                  \/ includes(toLowerCase(m.title), toLowerCase(q))
                  \/ includes(toLowerCase(m.body), toLowerCase(q)))

\* C3: a search with a non-empty query is answered by the search operation,
\* without error, with exactly the stored records whose title or body
\* contains the query as a case-insensitive substring.
C3_Search ==
    (Is(req, "GET", <<"messages", "search">>) /\ ~MissingOrEmpty(req.query)) =>
        /\ res.route = "GET /messages/search"
        /\ res.status = 200
        /\ res.kind = "Array"
        /\ res.items = Matching(store, req.query)

\* C4: every stored record has a non-empty title and a non-empty body.
C4_NonEmptyTitleBody ==
    \A k \in DOMAIN store :
        ~Falsy(store[k].title) /\ ~Falsy(store[k].body)

\* C5: a create whose title or body is missing or empty fails with a
\* validation error (400) and leaves the store as it was.
C5_CreateRejects ==
    [][(/\ Is(req', "POST", <<"messages">>)
        /\ MissingOrEmpty(req'.body.title) \/ MissingOrEmpty(req'.body.body)) =>
          /\ res'.status = 400
          /\ res'.kind = "error"
          /\ store' = store]_vars

C5_Witness ==
    /\ Is(req, "POST", <<"messages">>)
    /\ req.body.title = Str_At
    /\ req.body.body = <<>>
    /\ res.status = 400
    /\ store # <<>>

\* C6: a successful create returns a record with the supplied title and
\* body, createdAt the clock value of the create and updatedAt absent, and
\* that record is stored under its own, newly generated, id.
C6_CreateResult ==
    [][(Is(req', "POST", <<"messages">>) /\ res'.status = 200) =>
          /\ res'.kind = "Message"
          /\ LET m == res'.items[1]
             IN /\ m.title = req'.body.title
                /\ m.body = req'.body.body
                /\ IsClockValue(m.createdAt, time')
                /\ m.updatedAt = NullDate
                /\ m.id \notin DOMAIN store
                /\ m.id \in DOMAIN store'
                /\ store'[m.id] = m]_vars

C6_Witness ==
    /\ Is(req, "POST", <<"messages">>)
    /\ res.status = 200
    /\ res.items[1].createdAt = 1
    /\ time > NsPerMs
    /\ Cardinality(DOMAIN store) = 2

\* C7: a successful update overwrites title, body and attachmentURL exactly
\* where the input carries the field (a null attachmentURL clears it) and
\* leaves each of the three that the input does not carry as it was.
C7_UpdateMerge ==
    [][(IsById(req', "PUT") /\ res'.status = 200) =>
          LET id == Id(req')
              data == req'.body
          IN /\ store'[id].title =
                   IF data.title # Undefined THEN data.title
                   ELSE store[id].title
             /\ store'[id].body =
                   IF data.body # Undefined THEN data.body
                   ELSE store[id].body
             /\ store'[id].attachmentURL =
                   IF data.attachmentURL # Undefined THEN data.attachmentURL
                   ELSE store[id].attachmentURL]_vars

C7_Witness ==
    /\ IsById(req, "PUT")
    /\ res.status = 200
    /\ req.body.title = Undefined
    /\ req.body.body = Undefined
    /\ req.body.attachmentURL = Null
    /\ store[Id(req)].title = <<>>
    /\ store[Id(req)].body = Str_dog
    /\ store[Id(req)].attachmentURL = Null

\* C8: a record's updatedAt is absent when it is created and stays absent
\* until a successful update of that record; every successful update, with
\* or without a visible change, sets it to the clock value of the update.
C8_UpdatedAt ==
    [][\A k \in Ids :
          /\ (k \notin DOMAIN store /\ k \in DOMAIN store') =>
                 store'[k].updatedAt = NullDate
          /\ (k \in DOMAIN store /\ k \in DOMAIN store') =>
                 IF Is(req', "PUT", <<"messages", k>>) /\ res'.status = 200
                 THEN IsClockValue(store'[k].updatedAt, time')
                 ELSE store'[k].updatedAt = store[k].updatedAt]_vars

C8_Witness ==
    /\ IsById(req, "PUT")
    /\ res.status = 200
    /\ req.body.title = Undefined
    /\ req.body.body = Undefined
    /\ req.body.attachmentURL = Undefined
    /\ res.items[1].updatedAt = 1
    /\ res.items[1].createdAt = 0
    /\ \E k \in DOMAIN store : ~Updated(store[k])

\* C9: every stored record whose updatedAt is present has
\* createdAt <= updatedAt (the clock never goes backwards).
C9_CreatedBeforeUpdated ==
    \A k \in DOMAIN store :
        Updated(store[k]) => store[k].createdAt <= store[k].updatedAt

C9_Witness ==
    /\ \E k \in DOMAIN store :
          Updated(store[k]) /\ store[k].createdAt < store[k].updatedAt
    /\ \E k \in DOMAIN store :
          Updated(store[k]) /\ store[k].createdAt = store[k].updatedAt

\* C10: no request changes the id or the createdAt of a stored record,
\* whatever the update input carries (id, createdAt, updatedAt included).
C10_IdCreatedAtFixed ==
    [][\A k \in DOMAIN store \cap DOMAIN store' :
          /\ store'[k].id = store[k].id
          /\ store'[k].createdAt = store[k].createdAt]_vars

C10_Witness ==
    /\ IsById(req, "PUT")
    /\ res.status = 200
    /\ req.body.id # Undefined
    /\ req.body.createdAt # Undefined
    /\ req.body.updatedAt # Undefined
    /\ res.items[1].id = Id(req)
    /\ res.items[1].createdAt = 0
    /\ res.items[1].updatedAt = 1

----------------------------------------------------------------------------
\* the ids uuidv4() has generated so far: one for each successful create
Generated == {uuidv4(n) : n \in 0..(issued - 1)}

\* the ids whose record has been deleted (no id is stored under again)
Deleted == Generated \ DOMAIN store

C12_DeleteThenGet ==
    [][/\ (IsById(req', "DELETE") /\ Id(req') \in DOMAIN store) =>
              /\ res'.status = 200
              /\ res'.items = <<store[Id(req')]>>
              /\ Id(req') \notin DOMAIN store'
       /\ (IsById(req', "GET") /\ Id(req') \in Deleted) =>
              res'.status = 404]_vars

\* C13: delete by id on an id that holds no record reports NotFound (404),
\* never a removed record, and leaves the store as it was, so that a second
\* delete of an id changes nothing.
C13_DeleteAbsent ==
    [][(IsById(req', "DELETE") /\ Id(req') \notin DOMAIN store) =>
          /\ res'.status = 404
          /\ res'.kind = "error"
          /\ store' = store]_vars

\* C14: list all always succeeds and returns exactly the stored records, one
\* for each key, none missing and none twice; and what the store holds at an
\* id is the record the last successful create or update of it returned.
C14_ListAll ==
    /\ [](Is(req, "GET", <<"messages">>) =>
             /\ res.status = 200
             /\ res.kind = "Array"
             /\ Len(res.items) = Cardinality(DOMAIN store)
             /\ \A k \in DOMAIN store :
                   \E i \in 1..Len(res.items) : res.items[i] = store[k])
    /\ [][(/\ Is(req', "POST", <<"messages">>) \/ IsById(req', "PUT")
           /\ res'.status = 200) =>
             /\ res'.items[1].id \in DOMAIN store'
             /\ store'[res'.items[1].id] = res'.items[1]]_vars

C14_Witness ==
    /\ Is(req, "GET", <<"messages">>)
    /\ res.status = 200
    /\ Len(res.items) = 2
    /\ Updated(res.items[1])
    /\ res.items[1].body = Str_Cat
    /\ ~Updated(res.items[2])

\* C15: a search whose query is missing or empty fails with a validation
\* error (400) and returns no records.
C15_SearchRejects ==
    (/\ Is(req, "GET", <<"messages", "search">>)
     /\ MissingOrEmpty(req.query)) =>
        /\ res.status = 400
        /\ res.kind = "error"
        /\ res.items = <<>>

Changed(k) ==
    \/ (k \in DOMAIN store) # (k \in DOMAIN store')
    \/ k \in DOMAIN store /\ k \in DOMAIN store' /\ store'[k] # store[k]

\* C17: a request changes the store at no more than one key: a create at
\* the new id alone, an update or a delete at the id it names alone; and a
\* request answered with an error changes the store nowhere.
C17_OneKey ==
    [][/\ \A k \in Ids :
              Changed(k) =>
                  \/ /\ Is(req', "POST", <<"messages">>)
                     /\ res'.status = 200
                     /\ k = res'.items[1].id
                     /\ k \notin DOMAIN store
                  \/ IsById(req', "PUT") /\ k = Id(req')
                  \/ IsById(req', "DELETE") /\ k = Id(req')
       /\ res'.kind = "error" => store' = store]_vars

C17_Witness ==
    /\ IsById(req, "DELETE")
    /\ res.status = 200
    /\ res.kind = "Message"
    /\ Cardinality(DOMAIN store) = 1
    /\ Id(req) \notin DOMAIN store

\* C18: the attachmentURL of a created record is the attachmentURL supplied,
\* the empty string included, and null when none is supplied.
C18_CreateAttachment ==
    [][(Is(req', "POST", <<"messages">>) /\ res'.status = 200) =>
          res'.items[1].attachmentURL =
              IF req'.body.attachmentURL = Undefined THEN Null
              ELSE req'.body.attachmentURL]_vars

\* C19: in every state and for every id, get by id, update by id and delete
\* by id agree on whether the id is absent: one reports NotFound exactly
\* when the other two do.
C19_PresenceAgrees ==
    \A id \in Ids :
        /\ GetReportsNotFound(store, id) <=> PutReportsNotFound(store, id)
        /\ GetReportsNotFound(store, id) <=> DeleteReportsNotFound(store, id)

\* C20: every record is stored under its own id: the record at key k has
\* id k.
C20_StoredUnderOwnId ==
    \A k \in DOMAIN store : store[k].id = k

C20_Witness ==
    /\ IsById(req, "PUT")
    /\ res.status = 200
    /\ req.body.id # Undefined
    /\ Id(req) = "u2"
    /\ Cardinality(DOMAIN store) = 2

====
